---- MODULE Spec2Model ----
(***************************************************************************)
(* Model of app.py: the financial functions, the cycle simulator           *)
(* simulate_multi_cycle_strategy_detailed, and the Streamlit session       *)
(* (scenario cycle lists, edit mode, Lump-Sum-vs-DCA regeneration).        *)
(*                                                                         *)
(* Arithmetic.  The program computes in IEEE doubles.  The model computes  *)
(* in integers and draws its inputs from values on which every            *)
(* intermediate double of the program is an integer below 2^31, so that    *)
(* the program's float results and the model's integers coincide:         *)
(*   - annual rates a with (1+a) a perfect 12th power (0 and 4095, whose   *)
(*     monthly rates are 0 and 1); of these the widgets of the page, which *)
(*     take rates of [0.0, 1.0], admit 0 only;                             *)
(*   - loans whose monthly repayment is a whole number (ExactRepayment);   *)
(*   - strategies whose portfolio stays below 2^31 (Representable).        *)
(***************************************************************************)
EXTENDS Integers, Sequences, FiniteSets, TLC

\* ---------------------------------------------------------------- bounds
\* cycles of a simulated strategy, and years it runs in all
MaxCycles == 3
MaxYears == 3
\* cycles of a scenario's list in the session
MaxSessionCycles == 2

MaxInt == (2^30 - 1) + 2^30

Years == 0..2
LoanAmounts == {0, 24}
Contributions == {0, 1}
AnnualRates == {0, 4095}
StartAges == {0, 30}

\* The sidebar's two rate widgets (lines 174-177, 184-187) hold a float of
\* [0.0, 1.0]; the session variables annual_investment_rate_s1/_s2 hold it in
\* hundredths, the step of the widget: the minimum 0.0 and the default 0.08.
SidebarRates == {0, 8}
\* The sidebar's two age widgets (lines 178-181, 188-191): ints of 0..100,
\* the minimum and the default.
SidebarAges == {0, 30}

\* ------------------------------------------------------- financial maths
RECURSIVE Pow(_, _)
Pow(b, n) == IF n = 0 THEN 1 ELSE b * Pow(b, n - 1)

RECURSIVE PowFits(_, _)
PowFits(b, n) ==
    IF n = 0 THEN TRUE
    ELSE PowFits(b, n - 1) /\ Pow(b, n - 1) <= MaxInt \div b

compound_growth(principal, monthly_rate, months) ==
    principal * Pow(1 + monthly_rate, months)

\* (1 + annual_rate) ** (1/12) - 1 : the 12th root, on perfect 12th powers.
annual_rate2mensual_rate(annual_rate) ==
    CHOOSE r \in 0..annual_rate : Pow(1 + r, 12) = 1 + annual_rate

monthly_repayment(principal, annual_interest_rate, years) ==
    LET monthly_interest_rate == annual_rate2mensual_rate(annual_interest_rate)
        n_months == years * 12
        numerator == monthly_interest_rate * Pow(1 + monthly_interest_rate, n_months)
        denominator == Pow(1 + monthly_interest_rate, n_months) - 1
    IN  IF n_months = 0 THEN 0
        ELSE IF monthly_interest_rate = 0 THEN principal \div n_months
        ELSE (principal * numerator) \div denominator

\* The inputs on which the program's float division is a whole number.
ExactRepayment(principal, annual_interest_rate, years) ==
    LET monthly_interest_rate == annual_rate2mensual_rate(annual_interest_rate)
        n_months == years * 12
    IN  \/ n_months = 0
        \/ monthly_interest_rate = 0 /\ principal % n_months = 0
        \/ /\ monthly_interest_rate # 0
           /\ PowFits(1 + monthly_interest_rate, n_months)
           /\ principal <= MaxInt \div
                  (monthly_interest_rate * Pow(1 + monthly_interest_rate, n_months))
           /\ (principal * monthly_interest_rate
                  * Pow(1 + monthly_interest_rate, n_months))
                % (Pow(1 + monthly_interest_rate, n_months) - 1) = 0

\* ---------------------------------------------------------------- cycles
Max(a, b) == IF a >= b THEN a ELSE b

\* A cycle is the program's dict of six keys.  loan_amount_type records the
\* Python type of the value under "loan_amount", which the integers of the
\* model do not tell apart: st.number_input with min_value=0.0 returns a
\* float (line 323), line 408 stores the int 0.
cycle_dict(loan_amount, loan_interest_rate, loan_repayment_years, monthly_contribution, contribution_years) ==
    [loan_amount |-> loan_amount,
     loan_interest_rate |-> loan_interest_rate,
     loan_repayment_years |-> loan_repayment_years,
     monthly_contribution |-> monthly_contribution,
     contribution_years |-> contribution_years,
     m_repayment |-> monthly_repayment(loan_amount, loan_interest_rate,
                                       loan_repayment_years),
     loan_amount_type |-> "float"]

add_cycle(scenario_cycles, loan_amount, loan_interest_rate, loan_repayment_years, monthly_contribution, contribution_years) ==
    Append(scenario_cycles,
           cycle_dict(loan_amount, loan_interest_rate, loan_repayment_years,
                      monthly_contribution, contribution_years))

\* update_cycle that writes the loan fields and leaves m_repayment as it was
update_cycle_stale(scenario_cycles, index, loan_amount, loan_interest_rate, loan_repayment_years, monthly_contribution, contribution_years) ==
    [scenario_cycles EXCEPT ![index + 1] =
        [loan_amount |-> loan_amount,
         loan_interest_rate |-> loan_interest_rate,
         loan_repayment_years |-> loan_repayment_years,
         monthly_contribution |-> monthly_contribution,
         contribution_years |-> contribution_years,
         m_repayment |-> scenario_cycles[index + 1].m_repayment,
         loan_amount_type |-> "float"]]

\* index is the program's 0-based position.
update_cycle(scenario_cycles, index, loan_amount, loan_interest_rate, loan_repayment_years, monthly_contribution, contribution_years) ==
    [scenario_cycles EXCEPT ![index + 1] =
        cycle_dict(loan_amount, loan_interest_rate, loan_repayment_years,
                   monthly_contribution, contribution_years)]

\* list.pop(i), i 0-based
pop(scenario_cycles, i) ==
    SubSeq(scenario_cycles, 1, i) \o SubSeq(scenario_cycles, i + 2, Len(scenario_cycles))

\* the cycle's length taken from the loan alone
cycle_length_years_loan_only(c) == c.loan_repayment_years

cycle_length_years(c) == Max(c.loan_repayment_years, c.contribution_years)

\* a mirror that copies the cycle's own contribution
dca_cycle_own_contribution(c) ==
    [loan_amount |-> 0,
     loan_interest_rate |-> 0,
     loan_repayment_years |-> 0,
     monthly_contribution |-> c.monthly_contribution,
     contribution_years |-> cycle_length_years(c),
     m_repayment |-> 0,
     loan_amount_type |-> "int"]

\* One mirror cycle of build_dca_cycles_from_lumpsum.
dca_cycle(c) ==
    [loan_amount |-> 0,
     loan_interest_rate |-> 0,
     loan_repayment_years |-> 0,
     monthly_contribution |-> c.m_repayment,
     contribution_years |-> cycle_length_years(c),
     m_repayment |-> 0,
     loan_amount_type |-> "int"]

build_dca_cycles_from_lumpsum(scenario1) ==
    [k \in 1..Len(scenario1) |-> dca_cycle(scenario1[k])]

\* ------------------------------------------------------------ input sets
\* What the form of cycle_form submits in the simulation studies: its five
\* widgets (lines 323-358) take their values independently of one another;
\* the loans are without interest and of amounts on which the repayment is a
\* whole number.
FormInputs ==
    {in \in [loan_amount : LoanAmounts, loan_interest_rate : {0},
             loan_repayment_years : Years, monthly_contribution : Contributions,
             contribution_years : Years] :
        ExactRepayment(in.loan_amount, in.loan_interest_rate,
                       in.loan_repayment_years)}

add_input(scenario_cycles, in) ==
    add_cycle(scenario_cycles, in.loan_amount, in.loan_interest_rate,
              in.loan_repayment_years, in.monthly_contribution, in.contribution_years)

RECURSIVE TotalYears(_)
TotalYears(cycles) ==
    IF cycles = << >> THEN 0
    ELSE Max(Head(cycles).loan_repayment_years, Head(cycles).contribution_years)
         + TotalYears(Tail(cycles))

\* The strategies of n cycles that run MaxYears years at most.
RECURSIVE StrategiesOfLen(_)
StrategiesOfLen(n) ==
    IF n = 0 THEN {<< >>}
    ELSE {t \in {add_input(s, in) : s \in StrategiesOfLen(n - 1), in \in FormInputs} :
             TotalYears(t) <= MaxYears}

\* The strategies of n cycles at most.
StrategiesUpTo(n) == UNION {StrategiesOfLen(k) : k \in 0..n}

RECURSIVE MoneyIn(_)
MoneyIn(cycles) ==
    IF cycles = << >> THEN 0
    ELSE Head(cycles).loan_amount
         + 12 * Head(cycles).monthly_contribution * Head(cycles).contribution_years
         + MoneyIn(Tail(cycles))

\* The runs whose portfolio stays below 2^31: all the money ever put in,
\* grown over the whole run, fits.
Representable(cycles, annual_rate) ==
    LET r == annual_rate2mensual_rate(annual_rate)
        n == 12 * TotalYears(cycles)
    IN  \/ r = 0
        \/ PowFits(1 + r, n) /\ MoneyIn(cycles) <= MaxInt \div Pow(1 + r, n)

\* ------------------------------------------------------------------ state
VARIABLES
    \* st.session_state and the sidebar widgets
    scenario1_cycles, scenario2_cycles, edit_cycle_info, lumpsum_vs_dca,
    annual_investment_rate_s1, start_age_s1,
    annual_investment_rate_s2, start_age_s2,
    last_run,            \* how the last script run ended: "ok" or the exception
    run_pc,              \* the script run in progress
    \* the "Simuler les deux scenarios" handler
    handler_pc, result_s1, result_s2,
    \* one call of simulate_multi_cycle_strategy_detailed
    pc, strategy_cycles, annual_investment_rate, start_age,
    monthly_investment_rate, total_portfolio, total_external_investment,
    current_age, ages, net_gains_annual, annual_details,
    cycle_pos,           \* 1-based position of the for-loop over strategy_cycles
    year_index, month, portfolio_before, out_of_pocket_year,
    final_portfolio, final_net_gains,
    \* history of the call: monthly steps executed, growth of the current
    \* year, growth of each recorded year
    h_months, h_growth_year, h_growth_annual

sidebarVars == <<annual_investment_rate_s1, start_age_s1,
                 annual_investment_rate_s2, start_age_s2>>
sessionVars == <<scenario1_cycles, scenario2_cycles, edit_cycle_info, lumpsum_vs_dca,
                 sidebarVars, last_run, run_pc>>
handlerVars == <<handler_pc, result_s1, result_s2>>
argVars == <<strategy_cycles, annual_investment_rate, start_age, monthly_investment_rate>>
outVars == <<ages, net_gains_annual, annual_details, h_growth_annual>>
simVars == <<pc, argVars, total_portfolio, total_external_investment, current_age,
             outVars, cycle_pos, year_index, month, portfolio_before,
             out_of_pocket_year, final_portfolio, final_net_gains,
             h_months, h_growth_year>>
vars == <<sessionVars, handlerVars, simVars>>

\* edit_cycle_info = None: a record that names no scenario
None == [scenario |-> 0, index |-> 0]

\* ---------------------------------------------------- the simulator call
\* lines 64-73: the locals at entry
Entry(cycles, rate, age) ==
    /\ pc = "cycle"
    /\ strategy_cycles = cycles
    /\ annual_investment_rate = rate
    /\ start_age = age
    /\ monthly_investment_rate = annual_rate2mensual_rate(rate)
    /\ total_portfolio = 0
    /\ total_external_investment = 0
    /\ current_age = age
    /\ ages = << >>
    /\ net_gains_annual = << >>
    /\ annual_details = << >>
    /\ cycle_pos = 1
    /\ year_index = 0
    /\ month = 0
    /\ portfolio_before = 0
    /\ out_of_pocket_year = 0
    /\ final_portfolio = 0
    /\ final_net_gains = 0
    /\ h_months = 0
    /\ h_growth_year = 0
    /\ h_growth_annual = << >>

NotCalled ==
    /\ pc = "idle"
    /\ strategy_cycles = << >>
    /\ annual_investment_rate = 0
    /\ start_age = 0
    /\ monthly_investment_rate = 0
    /\ total_portfolio = 0
    /\ total_external_investment = 0
    /\ current_age = 0
    /\ ages = << >>
    /\ net_gains_annual = << >>
    /\ annual_details = << >>
    /\ cycle_pos = 1
    /\ year_index = 0
    /\ month = 0
    /\ portfolio_before = 0
    /\ out_of_pocket_year = 0
    /\ final_portfolio = 0
    /\ final_net_gains = 0
    /\ h_months = 0
    /\ h_growth_year = 0
    /\ h_growth_annual = << >>

cycle == strategy_cycles[cycle_pos]

\* lines 98-99 and 102-104: what one month takes out of the pocket and puts
\* into the portfolio, in year y of cycle c
repayment_of_month(c, y) == IF y < c.loan_repayment_years THEN c.m_repayment ELSE 0
contribution_of_month(c, y) == IF y < c.contribution_years THEN c.monthly_contribution ELSE 0

\* roi_year without the subtraction of the money paid
roi_of_year_gross(after, before, out_of_pocket) == after - before

\* line 117
roi_of_year(after, before, out_of_pocket) == (after - before) - out_of_pocket

\* year_index + 1, the position within the cycle
year_index_of_record_in_cycle(ages_after_append, y) == y + 1

\* line 129
year_index_of_record(ages_after_append, y) == Len(ages_after_append)

\* the borrowed amount counted as money injected
CycleBegin_LoanInjected ==
    /\ pc = "cycle"
    /\ cycle_pos <= Len(strategy_cycles)
    /\ total_portfolio' = total_portfolio + cycle.loan_amount
    /\ total_external_investment' = total_external_investment + cycle.loan_amount
    /\ year_index' = 0
    /\ pc' = "year"
    /\ UNCHANGED <<sessionVars, handlerVars, argVars,
                   current_age, outVars, cycle_pos, month, portfolio_before,
                   out_of_pocket_year, final_portfolio, final_net_gains,
                   h_months, h_growth_year>>

\* lines 76-88: next cycle of the for loop; the borrowed amount is invested
CycleBegin ==
    /\ pc = "cycle"
    /\ cycle_pos <= Len(strategy_cycles)
    /\ total_portfolio' = total_portfolio + cycle.loan_amount
    /\ year_index' = 0
    /\ pc' = "year"
    /\ UNCHANGED <<sessionVars, handlerVars, argVars, total_external_investment,
                   current_age, outVars, cycle_pos, month, portfolio_before,
                   out_of_pocket_year, final_portfolio, final_net_gains,
                   h_months, h_growth_year>>

\* lines 90-93: a year of the cycle starts
YearBegin ==
    /\ pc = "year"
    /\ year_index < cycle_length_years(cycle)
    /\ portfolio_before' = total_portfolio
    /\ out_of_pocket_year' = 0
    /\ month' = 0
    /\ h_growth_year' = 0
    /\ pc' = "month"
    /\ UNCHANGED <<sessionVars, handlerVars, argVars, total_portfolio,
                   total_external_investment, current_age, outVars, cycle_pos,
                   year_index, final_portfolio, final_net_gains, h_months>>

\* line 90: range(cycle_length_years) is exhausted
CycleEnd ==
    /\ pc = "year"
    /\ year_index >= cycle_length_years(cycle)
    /\ cycle_pos' = cycle_pos + 1
    /\ pc' = "cycle"
    /\ UNCHANGED <<sessionVars, handlerVars, argVars, total_portfolio,
                   total_external_investment, current_age, outVars, year_index,
                   month, portfolio_before, out_of_pocket_year, final_portfolio,
                   final_net_gains, h_months, h_growth_year>>

\* the month's growth applied before the contribution lands
MonthStep_GrowthFirst ==
    /\ pc = "month"
    /\ month < 12
    /\ LET grown == compound_growth(total_portfolio, monthly_investment_rate, 1)
       IN  /\ out_of_pocket_year' = out_of_pocket_year
                                      + repayment_of_month(cycle, year_index)
                                      + contribution_of_month(cycle, year_index)
           /\ total_portfolio' = grown + contribution_of_month(cycle, year_index)
           /\ h_growth_year' = h_growth_year + (grown - total_portfolio)
    /\ month' = month + 1
    /\ h_months' = h_months + 1
    /\ UNCHANGED <<sessionVars, handlerVars, pc, argVars, total_external_investment,
                   current_age, outVars, cycle_pos, year_index, portfolio_before,
                   final_portfolio, final_net_gains>>

\* lines 96-108: one month
MonthStep ==
    /\ pc = "month"
    /\ month < 12
    /\ LET invested == total_portfolio + contribution_of_month(cycle, year_index)
           grown == compound_growth(invested, monthly_investment_rate, 1)
       IN  /\ out_of_pocket_year' = out_of_pocket_year
                                      + repayment_of_month(cycle, year_index)
                                      + contribution_of_month(cycle, year_index)
           /\ total_portfolio' = grown
           /\ h_growth_year' = h_growth_year + (grown - invested)
    /\ month' = month + 1
    /\ h_months' = h_months + 1
    /\ UNCHANGED <<sessionVars, handlerVars, pc, argVars, total_external_investment,
                   current_age, outVars, cycle_pos, year_index, portfolio_before,
                   final_portfolio, final_net_gains>>

\* lines 110-137: the year is closed and recorded
YearEnd ==
    /\ pc = "month"
    /\ month = 12
    /\ LET injected == total_external_investment + out_of_pocket_year
           portfolio_after == total_portfolio
           roi_year == roi_of_year(portfolio_after, portfolio_before, out_of_pocket_year)
           net_gains_end_of_year == total_portfolio - injected
           age == current_age + 1
       IN  /\ total_external_investment' = injected
           /\ current_age' = age
           /\ ages' = Append(ages, age)
           /\ net_gains_annual' = Append(net_gains_annual, net_gains_end_of_year)
           /\ annual_details' = Append(annual_details,
                  [year_index |-> year_index_of_record(Append(ages, age), year_index),
                   age_end |-> age,
                   portfolio_before |-> portfolio_before,
                   out_of_pocket_year |-> out_of_pocket_year,
                   portfolio_after |-> portfolio_after,
                   roi_year |-> roi_year,
                   delta_year |-> roi_year - out_of_pocket_year,
                   net_gains_end_of_year |-> net_gains_end_of_year])
    /\ h_growth_annual' = Append(h_growth_annual, h_growth_year)
    /\ year_index' = year_index + 1
    /\ pc' = "year"
    /\ UNCHANGED <<sessionVars, handlerVars, argVars, total_portfolio, cycle_pos,
                   month, portfolio_before, out_of_pocket_year, final_portfolio,
                   final_net_gains, h_months, h_growth_year>>

\* lines 139-142
Return ==
    /\ pc = "cycle"
    /\ cycle_pos > Len(strategy_cycles)
    /\ final_portfolio' = total_portfolio
    /\ final_net_gains' = total_portfolio - total_external_investment
    /\ pc' = "done"
    /\ UNCHANGED <<sessionVars, handlerVars, argVars, total_portfolio,
                   total_external_investment, current_age, outVars, cycle_pos,
                   year_index, month, portfolio_before, out_of_pocket_year,
                   h_months, h_growth_year>>

SimNext == CycleBegin \/ YearBegin \/ MonthStep \/ YearEnd \/ CycleEnd \/ Return

\* A fresh session, lines 152-191: nothing stored, the sidebar's widgets at
\* their defaults (0.08 and 30), the first run ended.
SessionIdle ==
    /\ scenario1_cycles = << >>
    /\ scenario2_cycles = << >>
    /\ edit_cycle_info = None
    /\ lumpsum_vs_dca = FALSE
    /\ annual_investment_rate_s1 = 8
    /\ start_age_s1 = 30
    /\ annual_investment_rate_s2 = 8
    /\ start_age_s2 = 30
    /\ last_run = "ok"
    /\ run_pc = "waiting"

HandlerIdle ==
    /\ handler_pc = "idle"
    /\ result_s1 = [names |-> {}, ages |-> << >>, net_gains |-> << >>,
                    final_portfolio |-> 0, final_net_gains |-> 0,
                    annual_details |-> << >>]
    /\ result_s2 = [names |-> {}, ages |-> << >>, net_gains |-> << >>,
                    final_portfolio |-> 0, final_net_gains |-> 0,
                    annual_details |-> << >>]

\* One call of the simulator on any strategy, rate and start age.
Init ==
    /\ SessionIdle
    /\ HandlerIdle
    /\ \E cycles \in StrategiesUpTo(MaxCycles), rate \in AnnualRates, age \in StartAges :
          /\ Representable(cycles, rate)
          /\ Entry(cycles, rate, age)

Next == SimNext

Spec == Init /\ [][Next]_vars

FairSpec == Spec /\ WF_vars(Next)

\* ------------------------------------------------------------ the session
\* Every user event starts a run of the script from the top (lines 149-524)
\* with that widget's new value, and the run reaches the handler of a clicked
\* button when it draws that button.  Every st.* call is a point where a run
\* stops if another event has arrived; the next run then starts on the
\* session as the stopped run left it.  run_pc is the position of the run in
\* progress, between its writes to st.session_state:
\*   "waiting"  the last run ended (last_run tells how), the page waits;
\*   "valider"  line 372: update_cycle done, edit_cycle_info not yet cleared;
\*   "run"      a run with no button pressed is due, or in progress before
\*              line 403;
\*   "build"    lines 405-415: that run in DCA mode inside
\*              build_dca_cycles_from_lumpsum, scenario 2 emptied and the
\*              mirrors of its first Len(scenario2_cycles) cycles appended;
\*   "display"  line 432: that run in DCA mode, scenario 2 regenerated, the
\*              rest of the page still to draw;
\*   "simuler"  line 442: the handler of "Simuler les deux scenarios".
\* Every access to st.session_state is such a point too, so that a run stops
\* between the writes of lines 403 and 415.  An event action is enabled at
\* every position: at "valider", "run", "build" and "display" it stops the
\* run in progress, and last_run keeps the outcome of the last run that ended.

\* What the forms submit in the session study: a loan without interest and
\* without contributions, and contributions without a loan.
SessionInputs ==
    {in \in {[loan_amount |-> 24, loan_interest_rate |-> 0, loan_repayment_years |-> 2,
              monthly_contribution |-> 0, contribution_years |-> 0],
             [loan_amount |-> 0, loan_interest_rate |-> 0, loan_repayment_years |-> 0,
              monthly_contribution |-> 1, contribution_years |-> 1]} :
        ExactRepayment(in.loan_amount, in.loan_interest_rate, in.loan_repayment_years)}

scenario_cycles_of(scenario_number) ==
    IF scenario_number = 1 THEN scenario1_cycles ELSE scenario2_cycles

\* lines 287-290
is_edit_mode(info, scenario_number) ==
    info # None /\ info.scenario = scenario_number

\* How cycle_form gets to its widgets: in edit mode scenario_cycles[index_to_edit]
\* raises IndexError (line 295), and st.number_input(min_value=0.0, value=
\* default_loan_amount, step=5_000.0) raises StreamlitMixedNumericTypesError on
\* an int default (line 323).
form_outcome(info, scenario_number, cycles) ==
    IF ~is_edit_mode(info, scenario_number) THEN "ok"
    ELSE IF info.index >= Len(cycles) THEN "IndexError"
    ELSE IF cycles[info.index + 1].loan_amount_type = "int"
    THEN "StreamlitMixedNumericTypesError"
    ELSE "ok"

\* One run of the script with no button pressed, lines 420-435: what
\* scenario 2 holds afterwards and how the run ended.
script_run(s1, s2, info, lumpsum) ==
    IF form_outcome(info, 1, s1) # "ok"
    THEN [scenario2 |-> s2, ended |-> form_outcome(info, 1, s1)]
    ELSE IF lumpsum
    THEN [scenario2 |-> build_dca_cycles_from_lumpsum(s1), ended |-> "ok"]
    ELSE [scenario2 |-> s2, ended |-> form_outcome(info, 2, s2)]

\* A run on the session as it is draws the buttons of a scenario's section:
\* nothing before them raises, and lines 319-320 and 254-255 leave out
\* scenario 2's in DCA mode.  No line before them writes to the session.
section_shown(scenario_number) ==
    IF scenario_number = 1
    THEN form_outcome(edit_cycle_info, 1, scenario1_cycles) = "ok"
    ELSE /\ form_outcome(edit_cycle_info, 1, scenario1_cycles) = "ok"
         /\ ~lumpsum_vs_dca
         /\ form_outcome(edit_cycle_info, 2, scenario2_cycles) = "ok"

\* lines 376-388: "Ajouter ce cycle"; line 379 writes, line 388 asks for a run
Ajouter(scenario_number, in) ==
    /\ section_shown(scenario_number)
    /\ ~is_edit_mode(edit_cycle_info, scenario_number)
    /\ Len(scenario_cycles_of(scenario_number)) < MaxSessionCycles
    /\ run_pc' = "run"
    /\ IF scenario_number = 1
       THEN /\ scenario1_cycles' = add_input(scenario1_cycles, in)
            /\ UNCHANGED scenario2_cycles
       ELSE /\ scenario2_cycles' = add_input(scenario2_cycles, in)
            /\ UNCHANGED scenario1_cycles
    /\ UNCHANGED <<edit_cycle_info, lumpsum_vs_dca, sidebarVars, last_run,
                   handlerVars, simVars>>

\* lines 361-372: "Valider la modification", up to st.success
Valider(scenario_number, in) ==
    /\ section_shown(scenario_number)
    /\ is_edit_mode(edit_cycle_info, scenario_number)
    /\ run_pc' = "valider"
    /\ LET updated == update_cycle(scenario_cycles_of(scenario_number),
                                   edit_cycle_info.index,
                                   in.loan_amount, in.loan_interest_rate,
                                   in.loan_repayment_years, in.monthly_contribution,
                                   in.contribution_years)
       IN  IF scenario_number = 1
           THEN /\ scenario1_cycles' = updated
                /\ UNCHANGED scenario2_cycles
           ELSE /\ scenario2_cycles' = updated
                /\ UNCHANGED scenario1_cycles
    /\ UNCHANGED <<edit_cycle_info, lumpsum_vs_dca, sidebarVars, last_run,
                   handlerVars, simVars>>

\* lines 374-375: the handler leaves edit mode and asks for a run
ValiderDone ==
    /\ run_pc = "valider"
    /\ edit_cycle_info' = None
    /\ run_pc' = "run"
    /\ UNCHANGED <<scenario1_cycles, scenario2_cycles, lumpsum_vs_dca, sidebarVars,
                   last_run, handlerVars, simVars>>

\* lines 260-265: "Modifier cycle #i+1"
Modifier(scenario_number, i) ==
    /\ section_shown(scenario_number)
    /\ i \in 0..(Len(scenario_cycles_of(scenario_number)) - 1)
    /\ run_pc' = "run"
    /\ edit_cycle_info' = [scenario |-> scenario_number, index |-> i]
    /\ UNCHANGED <<scenario1_cycles, scenario2_cycles, lumpsum_vs_dca, sidebarVars,
                   last_run, handlerVars, simVars>>

\* lines 268-270: "Supprimer cycle #i+1"
Supprimer(scenario_number, i) ==
    /\ section_shown(scenario_number)
    /\ i \in 0..(Len(scenario_cycles_of(scenario_number)) - 1)
    /\ run_pc' = "run"
    /\ IF scenario_number = 1
       THEN /\ scenario1_cycles' = pop(scenario1_cycles, i)
            /\ UNCHANGED scenario2_cycles
       ELSE /\ scenario2_cycles' = pop(scenario2_cycles, i)
            /\ UNCHANGED scenario1_cycles
    /\ UNCHANGED <<edit_cycle_info, lumpsum_vs_dca, sidebarVars, last_run,
                   handlerVars, simVars>>

\* line 164: the checkbox, drawn before anything that can fail
Toggle ==
    /\ run_pc' = "run"
    /\ lumpsum_vs_dca' = ~lumpsum_vs_dca
    /\ UNCHANGED <<scenario1_cycles, scenario2_cycles, edit_cycle_info, sidebarVars,
                   last_run, handlerVars, simVars>>

\* lines 174-177 and 184-187: a rate widget of the sidebar gets a new value
SetRate(scenario_number, rate) ==
    /\ run_pc' = "run"
    /\ IF scenario_number = 1
       THEN /\ rate # annual_investment_rate_s1
            /\ annual_investment_rate_s1' = rate
            /\ UNCHANGED annual_investment_rate_s2
       ELSE /\ rate # annual_investment_rate_s2
            /\ annual_investment_rate_s2' = rate
            /\ UNCHANGED annual_investment_rate_s1
    /\ UNCHANGED <<scenario1_cycles, scenario2_cycles, edit_cycle_info, lumpsum_vs_dca,
                   start_age_s1, start_age_s2, last_run, handlerVars, simVars>>

\* lines 178-181 and 188-191: an age widget of the sidebar gets a new value
SetAge(scenario_number, age) ==
    /\ run_pc' = "run"
    /\ IF scenario_number = 1
       THEN /\ age # start_age_s1
            /\ start_age_s1' = age
            /\ UNCHANGED start_age_s2
       ELSE /\ age # start_age_s2
            /\ start_age_s2' = age
            /\ UNCHANGED start_age_s1
    /\ UNCHANGED <<scenario1_cycles, scenario2_cycles, edit_cycle_info, lumpsum_vs_dca,
                   annual_investment_rate_s1, annual_investment_rate_s2, last_run,
                   handlerVars, simVars>>

\* lines 420-431 and 403 of a run with no button pressed (the run that
\* st.rerun() asked for, or the run of a sidebar event): cycle_form raises
\* and the run ends, or in DCA mode build_dca_cycles_from_lumpsum starts and
\* line 403 empties scenario 2, or with DCA off the run writes nothing and
\* ends
Rerun ==
    /\ run_pc = "run"
    /\ IF /\ lumpsum_vs_dca
          /\ form_outcome(edit_cycle_info, 1, scenario1_cycles) = "ok"
       THEN /\ run_pc' = "build"
            /\ scenario2_cycles' = << >>
            /\ UNCHANGED last_run
       ELSE /\ run_pc' = "waiting"
            /\ last_run' = script_run(scenario1_cycles, scenario2_cycles,
                                      edit_cycle_info, lumpsum_vs_dca).ended
            /\ UNCHANGED scenario2_cycles
    /\ UNCHANGED <<scenario1_cycles, edit_cycle_info, lumpsum_vs_dca, sidebarVars,
                   handlerVars, simVars>>

\* lines 405-415, one pass of the loop: the mirror of the next cycle of
\* scenario 1 is appended to scenario 2
BuildAppend ==
    /\ run_pc = "build"
    /\ Len(scenario2_cycles) < Len(scenario1_cycles)
    /\ scenario2_cycles' =
          Append(scenario2_cycles, dca_cycle(scenario1_cycles[Len(scenario2_cycles) + 1]))
    /\ UNCHANGED <<scenario1_cycles, edit_cycle_info, lumpsum_vs_dca, sidebarVars,
                   last_run, run_pc, handlerVars, simVars>>

\* line 405, the loop is over: build_dca_cycles_from_lumpsum returns with
\* scenario 2 regenerated
BuildEnd ==
    /\ run_pc = "build"
    /\ Len(scenario2_cycles) = Len(scenario1_cycles)
    /\ run_pc' = "display"
    /\ UNCHANGED <<scenario1_cycles, scenario2_cycles, edit_cycle_info, lumpsum_vs_dca,
                   sidebarVars, last_run, handlerVars, simVars>>

\* lines 432-524 of that run in DCA mode: display_cycles(2) and the button
\* are drawn, nothing is written, the run ends
RerunEnd ==
    /\ run_pc = "display"
    /\ run_pc' = "waiting"
    /\ last_run' = "ok"
    /\ UNCHANGED <<scenario1_cycles, scenario2_cycles, edit_cycle_info, lumpsum_vs_dca,
                   sidebarVars, handlerVars, simVars>>

\* lines 152-159 and the widgets' defaults, after the first run
SessionInit ==
    /\ SessionIdle
    /\ HandlerIdle
    /\ NotCalled

SessionNext ==
    \/ \E n \in {1, 2}, in \in SessionInputs : Ajouter(n, in)
    \/ \E n \in {1, 2}, in \in SessionInputs : Valider(n, in)
    \/ ValiderDone
    \/ \E n \in {1, 2}, i \in 0..(MaxSessionCycles - 1) : Modifier(n, i)
    \/ \E n \in {1, 2}, i \in 0..(MaxSessionCycles - 1) : Supprimer(n, i)
    \/ Toggle
    \/ \E n \in {1, 2}, rate \in SidebarRates : SetRate(n, rate)
    \/ \E n \in {1, 2}, age \in SidebarAges : SetAge(n, age)
    \/ Rerun
    \/ BuildAppend
    \/ BuildEnd
    \/ RerunEnd

SessionSpec == SessionInit /\ [][SessionNext]_vars

\* ------------------------------------- "Simuler les deux scenarios"
\* The Python names a branch of the handler binds, with their values.
Bound(names, a, n, fp, fng, details) ==
    [names |-> names, ages |-> a, net_gains |-> n, final_portfolio |-> fp,
     final_net_gains |-> fng, annual_details |-> details]

\* lines 64-73, as the call's first step
Call(cycles, rate, age) ==
    /\ pc' = "cycle"
    /\ strategy_cycles' = cycles
    /\ annual_investment_rate' = rate
    /\ start_age' = age
    /\ monthly_investment_rate' = annual_rate2mensual_rate(rate)
    /\ total_portfolio' = 0
    /\ total_external_investment' = 0
    /\ current_age' = age
    /\ ages' = << >>
    /\ net_gains_annual' = << >>
    /\ annual_details' = << >>
    /\ cycle_pos' = 1
    /\ year_index' = 0
    /\ month' = 0
    /\ portfolio_before' = 0
    /\ out_of_pocket_year' = 0
    /\ final_portfolio' = 0
    /\ final_net_gains' = 0
    /\ h_months' = 0
    /\ h_growth_year' = 0
    /\ h_growth_annual' = << >>

Returned ==
    Bound({"ages", "net_gains", "final_portfolio", "final_net_gains", "annual_details"},
          ages, net_gains_annual, final_portfolio, final_net_gains, annual_details)

\* lines 457-459 and 474-476: annual_details is not assigned
EmptyBranch ==
    Bound({"ages", "net_gains", "final_portfolio", "final_net_gains"},
          << >>, << >>, 0, 0, << >>)

\* The float a rate widget of the sidebar returns, from the hundredths the
\* session variable holds.
widget_rate(hundredths) == hundredths \div 100

\* The widget values the integer arithmetic simulates exactly: a whole rate
\* whose monthly rate is whole.
ExactWidgetRate(hundredths) ==
    /\ hundredths % 100 = 0
    /\ \E r \in 0..widget_rate(hundredths) : Pow(1 + r, 12) = 1 + widget_rate(hundredths)

\* lines 444-455
SimulateS1 ==
    /\ handler_pc = "s1"
    /\ scenario1_cycles # << >>
    /\ Call(scenario1_cycles, widget_rate(annual_investment_rate_s1), start_age_s1)
    /\ handler_pc' = "s1_call"
    /\ UNCHANGED <<sessionVars, result_s1, result_s2>>

ReturnS1 ==
    /\ handler_pc = "s1_call"
    /\ pc = "done"
    /\ result_s1' = Returned
    /\ handler_pc' = "s2"
    /\ UNCHANGED <<sessionVars, result_s2, simVars>>

\* lines 457-459
EmptyS1 ==
    /\ handler_pc = "s1"
    /\ scenario1_cycles = << >>
    /\ result_s1' = EmptyBranch
    /\ handler_pc' = "s2"
    /\ UNCHANGED <<sessionVars, result_s2, simVars>>

\* lines 462-473
SimulateS2 ==
    /\ handler_pc = "s2"
    /\ scenario2_cycles # << >>
    /\ Call(scenario2_cycles, widget_rate(annual_investment_rate_s2), start_age_s2)
    /\ handler_pc' = "s2_call"
    /\ UNCHANGED <<sessionVars, result_s1, result_s2>>

ReturnS2 ==
    /\ handler_pc = "s2_call"
    /\ pc = "done"
    /\ result_s2' = Returned
    /\ handler_pc' = "render"
    /\ UNCHANGED <<sessionVars, result_s1, simVars>>

\* lines 474-476
EmptyS2 ==
    /\ handler_pc = "s2"
    /\ scenario2_cycles = << >>
    /\ result_s2' = EmptyBranch
    /\ handler_pc' = "render"
    /\ UNCHANGED <<sessionVars, result_s1, simVars>>

\* lines 481-524 read, in this order, the names the two branches bound:
\* the chart (483-486), the summary table (498-511), the two detail tables
\* (518, 522).  The first one that no branch bound raises NameError.
names_read ==
    <<[result |-> 1, name |-> "ages"], [result |-> 1, name |-> "net_gains"],
      [result |-> 2, name |-> "ages"], [result |-> 2, name |-> "net_gains"],
      [result |-> 1, name |-> "final_portfolio"],
      [result |-> 1, name |-> "final_net_gains"],
      [result |-> 2, name |-> "final_portfolio"],
      [result |-> 2, name |-> "final_net_gains"],
      [result |-> 1, name |-> "annual_details"],
      [result |-> 2, name |-> "annual_details"]>>

is_bound(read, r1, r2) ==
    read.name \in (IF read.result = 1 THEN r1.names ELSE r2.names)

render_outcome(r1, r2) ==
    IF \A i \in 1..Len(names_read) : is_bound(names_read[i], r1, r2)
    THEN "ok" ELSE "NameError"

\* lines 481-524: the chart and the tables are drawn, or the run stops; the
\* run ends either way
Render ==
    /\ handler_pc = "render"
    /\ handler_pc' = IF render_outcome(result_s1, result_s2) = "ok"
                     THEN "shown" ELSE "NameError"
    /\ last_run' = render_outcome(result_s1, result_s2)
    /\ run_pc' = "waiting"
    /\ UNCHANGED <<scenario1_cycles, scenario2_cycles, edit_cycle_info, lumpsum_vs_dca,
                   sidebarVars, result_s1, result_s2, simVars>>

HandlerNext ==
    \/ SimulateS1 \/ ReturnS1 \/ EmptyS1
    \/ SimulateS2 \/ ReturnS2 \/ EmptyS2
    \/ Render

\* The button pressed in DCA mode, the run at line 442: scenario 1 as the form
\* built it, scenario 2 the mirror that line 431 of this run generated, the
\* sidebar's rates set to values the arithmetic simulates exactly, the ages
\* at their default.
CompareInit ==
    /\ \E cycles \in StrategiesUpTo(MaxCycles), rate1 \in SidebarRates, rate2 \in SidebarRates :
          /\ ExactWidgetRate(rate1)
          /\ ExactWidgetRate(rate2)
          /\ Representable(cycles, widget_rate(rate1))
          /\ Representable(build_dca_cycles_from_lumpsum(cycles), widget_rate(rate2))
          /\ scenario1_cycles = cycles
          /\ scenario2_cycles = build_dca_cycles_from_lumpsum(cycles)
          /\ annual_investment_rate_s1 = rate1
          /\ annual_investment_rate_s2 = rate2
    /\ edit_cycle_info = None
    /\ lumpsum_vs_dca = TRUE
    /\ start_age_s1 = 30
    /\ start_age_s2 = 30
    /\ last_run = "ok"
    /\ run_pc = "simuler"
    /\ handler_pc = "s1"
    /\ result_s1 = Bound({}, << >>, << >>, 0, 0, << >>)
    /\ result_s2 = Bound({}, << >>, << >>, 0, 0, << >>)
    /\ NotCalled

CompareNext == HandlerNext \/ SimNext

CompareSpec == CompareInit /\ [][CompareNext]_vars

\* =========================================================== properties
\* Positions of the records in the strategy, from the cycles' own fields.
Duration(c) ==
    IF c.loan_repayment_years >= c.contribution_years
    THEN c.loan_repayment_years ELSE c.contribution_years

RECURSIVE SumDurations(_)
SumDurations(cycles) ==
    IF cycles = << >> THEN 0
    ELSE Duration(Head(cycles)) + SumDurations(Tail(cycles))

RECURSIVE SumLoans(_)
SumLoans(cycles) ==
    IF cycles = << >> THEN 0
    ELSE Head(cycles).loan_amount + SumLoans(Tail(cycles))

\* the cycle that produced record i (1-based)
CycleOfRecord(cycles, i) ==
    CHOOSE k \in 1..Len(cycles) :
        /\ SumDurations(SubSeq(cycles, 1, k - 1)) < i
        /\ i <= SumDurations(SubSeq(cycles, 1, k))

\* the loan amounts invested after record i-1 was written and before record i
LoansBetween(cycles, i) ==
    SumLoans(SubSeq(cycles, CycleOfRecord(cycles, i - 1) + 1, CycleOfRecord(cycles, i)))

\* C1 as stated: every record's net gains are the previous record's net gains
\* plus its own roi_year, also across a cycle boundary.
C1_AsStated ==
    \A i \in 2..Len(annual_details) :
        annual_details[i].net_gains_end_of_year
            = annual_details[i - 1].net_gains_end_of_year + annual_details[i].roi_year

\* C1 (amended): on the strategies whose amounts the program's doubles
\* compute exactly (whole numbers below 2^31, the strategies of this model),
\* every record's net gains are the previous record's net gains plus its own
\* roi_year plus the loan amounts of all the cycles begun between the two
\* records, those of zero duration included; within one cycle that is the
\* stated equality.
C1_NetGainsStep ==
    \A i \in 2..Len(annual_details) :
        annual_details[i].net_gains_end_of_year
            = annual_details[i - 1].net_gains_end_of_year + annual_details[i].roi_year
              + LoansBetween(strategy_cycles, i)

\* a loan cycle of zero duration between two cycles that write records: the
\* second record is the first year of the third cycle, and two loans were
\* invested since the first record
C1_Witness ==
    /\ pc = "done"
    /\ monthly_investment_rate # 0
    /\ Len(strategy_cycles) = 3
    /\ Len(annual_details) = 2
    /\ CycleOfRecord(strategy_cycles, 1) = 1
    /\ CycleOfRecord(strategy_cycles, 2) = 3
    /\ strategy_cycles[2].loan_amount > 0
    /\ strategy_cycles[3].loan_amount > 0
    /\ LoansBetween(strategy_cycles, 2)
          = strategy_cycles[2].loan_amount + strategy_cycles[3].loan_amount
    /\ annual_details[2].out_of_pocket_year > 0

\* C3 as stated: roi_year is the sum of the year's twelve monthly growth
\* increments, so it is 0 at an investment rate of 0, loan or no loan.
C3_AsStated ==
    \A i \in 1..Len(annual_details) :
        /\ annual_details[i].roi_year = h_growth_annual[i]
        /\ annual_investment_rate = 0 => annual_details[i].roi_year = 0

\* C5: a strategy whose cycles all have zero duration returns empty
\* sequences, the plain sum of the loan amounts as final portfolio, and final
\* net gains equal to the final portfolio.
C5_ZeroDuration ==
    (/\ pc = "done"
     /\ \A k \in 1..Len(strategy_cycles) :
            /\ strategy_cycles[k].loan_repayment_years = 0
            /\ strategy_cycles[k].contribution_years = 0)
    => /\ ages = << >>
       /\ net_gains_annual = << >>
       /\ annual_details = << >>
       /\ final_portfolio = SumLoans(strategy_cycles)
       /\ final_net_gains = final_portfolio

C5_Witness ==
    /\ pc = "done"
    /\ Len(strategy_cycles) = 2
    /\ \A k \in 1..Len(strategy_cycles) :
            /\ strategy_cycles[k].loan_repayment_years = 0
            /\ strategy_cycles[k].contribution_years = 0
            /\ strategy_cycles[k].loan_amount > 0
    /\ monthly_investment_rate # 0
    /\ final_portfolio > 0

\* C6: the k-th record overall has year_index k and age_end start_age + k,
\* ages[k] is that age, and the three sequences have one length.
C6_YearIndexAndAge ==
    /\ Len(ages) = Len(annual_details)
    /\ Len(net_gains_annual) = Len(annual_details)
    /\ \A k \in 1..Len(annual_details) :
          /\ annual_details[k].year_index = k
          /\ annual_details[k].age_end = start_age + k
          /\ ages[k] = annual_details[k].age_end

C6_Witness ==
    /\ pc = "done"
    /\ start_age # 0
    /\ Len(strategy_cycles) = 2
    /\ Len(annual_details) = 3
    /\ CycleOfRecord(strategy_cycles, 2) = 1
    /\ CycleOfRecord(strategy_cycles, 3) = 2

\* C8: the call terminates, having run twelve monthly steps and written one
\* record per year of every cycle's duration.
C8_Terminates ==
    <>[](/\ pc = "done"
         /\ h_months = 12 * SumDurations(strategy_cycles)
         /\ Len(annual_details) = SumDurations(strategy_cycles))

C8_Witness ==
    /\ pc = "done"
    /\ Len(strategy_cycles) = 2
    /\ strategy_cycles[1].loan_repayment_years < strategy_cycles[1].contribution_years
    /\ strategy_cycles[2].loan_repayment_years > strategy_cycles[2].contribution_years
    /\ h_months = 36

\* C9: a month turns the portfolio into (portfolio + c) * (1 + monthly rate),
\* c the contribution due that year; the repayment only adds to
\* out_of_pocket_year; the loan amount enters the portfolio at the cycle's
\* start and never the injected total; nothing else moves the portfolio.
C9_MonthAndLoan ==
    [][LET c == strategy_cycles[cycle_pos]
           contribution == IF year_index < c.contribution_years
                           THEN c.monthly_contribution ELSE 0
           repayment == IF year_index < c.loan_repayment_years
                        THEN c.m_repayment ELSE 0
       IN  /\ (pc = "month" /\ month < 12) =>
                /\ total_portfolio'
                     = (total_portfolio + contribution) * (1 + monthly_investment_rate)
                /\ out_of_pocket_year' = out_of_pocket_year + repayment + contribution
                /\ total_external_investment' = total_external_investment
           /\ (pc = "cycle" /\ cycle_pos <= Len(strategy_cycles)) =>
                /\ total_portfolio' = total_portfolio + c.loan_amount
                /\ total_external_investment' = total_external_investment
                /\ cycle_pos' = cycle_pos
           /\ (pc = "year") => total_portfolio' = total_portfolio
           /\ (pc = "month" /\ month = 12) =>
                /\ total_portfolio' = total_portfolio
                /\ total_external_investment'
                     = total_external_investment + out_of_pocket_year
      ]_vars

C9_Witness ==
    /\ pc = "month"
    /\ month = 12
    /\ monthly_investment_rate # 0
    /\ cycle_pos = 2
    /\ cycle.loan_amount > 0
    /\ cycle.m_repayment > 0
    /\ cycle.monthly_contribution > 0
    /\ year_index < cycle.loan_repayment_years
    /\ year_index < cycle.contribution_years
    /\ total_portfolio > portfolio_before + out_of_pocket_year

\* C4: every stored cycle's m_repayment is monthly_repayment of that cycle's
\* own loan_amount, loan_interest_rate and loan_repayment_years.
C4_RepaymentDerived ==
    \A n \in {1, 2} :
        \A k \in 1..Len(scenario_cycles_of(n)) :
            LET c == scenario_cycles_of(n)[k]
            IN  c.m_repayment = monthly_repayment(c.loan_amount, c.loan_interest_rate,
                                                  c.loan_repayment_years)

\* "Valider" has just turned a cycle of scenario 1 without a loan into a
\* loan, at line 372, while scenario 2 holds the generated mirror of a loan
\* next to a cycle that its own form added
C4_Witness ==
    /\ run_pc = "valider"
    /\ ~lumpsum_vs_dca
    /\ edit_cycle_info = [scenario |-> 1, index |-> 1]
    /\ Len(scenario1_cycles) = 2
    /\ scenario1_cycles[1].loan_amount = 0
    /\ scenario1_cycles[1].m_repayment = 0
    /\ scenario1_cycles[2].loan_amount = 24
    /\ scenario1_cycles[2].m_repayment = 1
    /\ Len(scenario2_cycles) = 2
    /\ scenario2_cycles[1].loan_amount_type = "int"
    /\ scenario2_cycles[1].monthly_contribution = 1
    /\ scenario2_cycles[1].m_repayment = 0
    /\ scenario2_cycles[2].loan_amount_type = "float"
    /\ scenario2_cycles[2].m_repayment = 1

\* C7 as stated: in DCA mode scenario 2 is, cycle by cycle, the mirror of
\* scenario 1 after every rerun.
C7_AsStated ==
    (lumpsum_vs_dca /\ run_pc = "waiting") =>
        /\ Len(scenario2_cycles) = Len(scenario1_cycles)
        /\ \A k \in 1..Len(scenario1_cycles) :
              /\ scenario2_cycles[k].loan_amount = 0
              /\ scenario2_cycles[k].loan_interest_rate = 0
              /\ scenario2_cycles[k].loan_repayment_years = 0
              /\ scenario2_cycles[k].m_repayment = 0
              /\ scenario2_cycles[k].monthly_contribution
                    = scenario1_cycles[k].m_repayment
              /\ scenario2_cycles[k].contribution_years
                    = Duration(scenario1_cycles[k])

\* C10 as stated: an edit_cycle_info that is not None holds a valid position
\* of the list of the scenario it names.
C10_AsStated ==
    edit_cycle_info # None =>
        /\ 0 <= edit_cycle_info.index
        /\ edit_cycle_info.index < Len(scenario_cycles_of(edit_cycle_info.scenario))

\* out_of_pocket_year summed over the records of cycle k
RECURSIVE SumOutOfPocket(_, _, _)
SumOutOfPocket(details, first, last) ==
    IF first > last THEN 0
    ELSE details[first].out_of_pocket_year + SumOutOfPocket(details, first + 1, last)

OutOfPocketOfCycle(details, cycles, k) ==
    SumOutOfPocket(details, SumDurations(SubSeq(cycles, 1, k - 1)) + 1,
                   SumDurations(SubSeq(cycles, 1, k)))

Injected(result) == result.final_portfolio - result.final_net_gains

\* the cycles whose mirror takes the same cash: no contributions of their
\* own, and no years after the last repayment
LoanOnly(c) ==
    /\ c.monthly_contribution = 0 \/ c.contribution_years = 0
    /\ c.contribution_years <= c.loan_repayment_years \/ c.m_repayment = 0

\* C2 as stated: cycle by cycle the lump-sum strategy and its DCA mirror take
\* the same cash out of pocket, hence the same total injected.
C2_AsStated ==
    (handler_pc = "render" /\ scenario1_cycles # << >>) =>
        /\ \A k \in 1..Len(scenario1_cycles) :
              OutOfPocketOfCycle(result_s1.annual_details, scenario1_cycles, k)
                = OutOfPocketOfCycle(result_s2.annual_details, scenario2_cycles, k)
        /\ Injected(result_s1) = Injected(result_s2)

\* C2 (amended): on the strategies whose amounts the program's doubles
\* compute exactly (whole numbers below 2^31, the strategies of this model),
\* cycle k of the lump-sum strategy takes
\* 12 * (m_repayment * loan_repayment_years + monthly_contribution *
\* contribution_years) out of pocket and its mirror 12 * m_repayment *
\* max(loan_repayment_years, contribution_years); the two are equal for every
\* cycle without contributions of its own and without years after its last
\* repayment, and the totals injected are equal when every cycle is such.
C2_SameCashForLoanOnly ==
    (handler_pc = "render" /\ scenario1_cycles # << >>) =>
        /\ \A k \in 1..Len(scenario1_cycles) :
              LET c == scenario1_cycles[k]
                  inA == OutOfPocketOfCycle(result_s1.annual_details, scenario1_cycles, k)
                  inB == OutOfPocketOfCycle(result_s2.annual_details, scenario2_cycles, k)
              IN  /\ inA = 12 * (c.m_repayment * c.loan_repayment_years
                                 + c.monthly_contribution * c.contribution_years)
                  /\ inB = 12 * c.m_repayment * Duration(c)
                  /\ LoanOnly(c) => inA = inB
        /\ (\A k \in 1..Len(scenario1_cycles) : LoanOnly(scenario1_cycles[k]))
              => Injected(result_s1) = Injected(result_s2)

\* every cycle takes the same cash as its mirror, each in one of the two ways:
\* a loan repaid over two years whose contribution window (of amount 0) ends
\* before the last repayment, then a loan without repayment whose
\* contribution window of amount 0 outlasts its term
C2_Witness ==
    /\ handler_pc = "render"
    /\ Len(scenario1_cycles) = 2
    /\ \A k \in 1..2 : LoanOnly(scenario1_cycles[k])
    /\ scenario1_cycles[1].m_repayment > 0
    /\ scenario1_cycles[1].contribution_years > 0
    /\ scenario1_cycles[1].contribution_years < scenario1_cycles[1].loan_repayment_years
    /\ scenario1_cycles[2].loan_amount > 0
    /\ scenario1_cycles[2].m_repayment = 0
    /\ scenario1_cycles[2].contribution_years > scenario1_cycles[2].loan_repayment_years
    /\ Injected(result_s1) = 24
    /\ Injected(result_s2) = 24
    /\ Len(result_s2.annual_details) = 3

\* C11 as stated: "Simuler les deux scenarios" completes without error,
\* every name the chart and the tables read being bound on the empty branch
\* as on the non-empty one.
C11_AsStated ==
    /\ handler_pc # "NameError"
    /\ last_run # "NameError"

====
